---------------------------- MODULE Spec2Model ----------------------------
(***************************************************************************)
(* Hakuna time tracking integration: the API client (api.py), the refresh  *)
(* cycle of the data update coordinator (coordinator.py) and the timer     *)
(* buttons (button.py).                                                    *)
(*                                                                         *)
(* Python values are encoded as follows.  An optional value is a sequence  *)
(* of length 0 (None, JSON null) or 1 (the value).  A JSON object is a     *)
(* function from its keys to optional values; a JSON array is a sequence.  *)
(***************************************************************************)
EXTENDS Integers, Sequences, FiniteSets, TLC

VARIABLES
    data,           \* coordinator.data: None before the first successful refresh
    updateResult,   \* how the last completed _async_update_data ended
    pc,             \* the await at which _async_update_data is suspended
    timer,          \* local `timer` of the running cycle
    overview,       \* local `overview`
    presence,       \* local `presence`
    users,          \* local `users`
    got,            \* per fetch of the running cycle: how the Gateway call ended
    remoteTimer,    \* the service: TRUE while a timer is running there
    press,          \* the last async_press: key, Gateway outcome, log, raise
    startedOk,      \* a start_timer call succeeded and the remote timer ran since
    cycleAfterStart,\* the running cycle began while startedOk held (and it held since)
    pubAfterStart,  \* the published snapshot came from such a cycle
    lastCall        \* the last _request observed in isolation

vars == <<data, updateResult, pc, timer, overview, presence, users, got,
          remoteTimer, press, startedOk, cycleAfterStart, pubAfterStart, lastCall>>

-----------------------------------------------------------------------------
(* Bounds *)

MaxTasks == 3          \* longest task list in the derivation of the default task

-----------------------------------------------------------------------------
(* Python / JSON values *)

None == <<>>
Some(v) == <<v>>
IsNone(o) == Len(o) = 0

\* dict.get(key): None when the key is missing or its value is null
Get(d, k) == IF k \in DOMAIN d THEN d[k] ELSE None

EmptyDict == [k \in {} |-> None]

\* truthiness of an optional dict (None and {} are falsy)
TruthyDict(o) == ~IsNone(o) /\ DOMAIN o[1] # {}

\* truthiness of an optional list (None and [] are falsy)
TruthyList(o) == ~IsNone(o) /\ Len(o[1]) > 0

\* truthiness of an optional boolean, as in task.get("default")
TruthyBool(o) == ~IsNone(o) /\ o[1]

-----------------------------------------------------------------------------
(* What the service can put in a 200 body *)

TimerRunningBody == ("date" :> Some("2016-11-08"))
TimerNullDateBody == ("date" :> None)
TimerNoDateBody == ("note" :> Some("-"))
TimerBodies == {TimerRunningBody, TimerNullDateBody, TimerNoDateBody, EmptyDict}

OverviewBody == ("overtime" :> Some("470:30"))

PresenceEntry == ("has_timer_running" :> Some(TRUE))
PresenceBodies == {<<>>, <<PresenceEntry>>}

UserEntry == ("id" :> Some(1))
UsersBodies == {<<>>, <<UserEntry>>}

\* a task record; ids follow the list position
Task(i, d, a) == ("id" :> Some(i)) @@ ("default" :> Some(d)) @@ ("archived" :> Some(a))

TaskListsOfLen(n) ==
    { [i \in 1..n |-> Task(i, f[i][1], f[i][2])] : f \in [1..n -> BOOLEAN \X BOOLEAN] }

TaskLists(max) == UNION { TaskListsOfLen(n) : n \in 0..max }


-----------------------------------------------------------------------------
(* API Gateway: api.py *)

HakunaApiError == "HakunaApiError"
HakunaAuthError == "HakunaAuthError"
HakunaRateLimitError == "HakunaRateLimitError"

\* `except HakunaApiError` catches the base class and its two subclasses
IsHakunaApiError(e) == e \in {HakunaApiError, HakunaAuthError, HakunaRateLimitError}

\* what session.request can do: answer with a status, or fail in transport
\* with an aiohttp.ClientError (refused, DNS) or with asyncio.TimeoutError
Statuses == {200, 204, 401, 404, 429, 500}
TransportFailures == {"ClientError", "TimeoutError"}

Http(s, b) == [exc |-> "none", status |-> s, body |-> b]
Broken(e) == [exc |-> e, status |-> 0, body |-> None]

\* every answer of the service to a request whose 200 bodies are `bodies`
Responses(bodies) ==
    { Http(200, Some(b)) : b \in bodies }
        \cup { Http(s, None) : s \in Statuses \ {200} }
        \cup { Broken(e) : e \in TransportFailures }

Returned(v) == [err |-> "none", value |-> v]
Raised(e) == [err |-> e, value |-> None]

\* _request without lines 71-73: 404 is an error like any other status >= 400
RequestNo404(endpoint, resp) ==
    IF resp.exc = "ClientError" THEN Raised(HakunaApiError)
    ELSE IF resp.exc # "none" THEN Raised(resp.exc)
    ELSE IF resp.status = 401 THEN Raised(HakunaAuthError)
    ELSE IF resp.status = 429 THEN Raised(HakunaRateLimitError)
    ELSE IF resp.status >= 400 THEN Raised(HakunaApiError)
    ELSE IF resp.status = 204 THEN Returned(None)
    ELSE Returned(resp.body)

\* HakunaApiClient._request: the endpoint plays no part in the classification
Request(endpoint, resp) ==
    IF resp.exc = "ClientError" THEN Raised(HakunaApiError)
    ELSE IF resp.exc # "none" THEN Raised(resp.exc)
    ELSE IF resp.status = 401 THEN Raised(HakunaAuthError)
    ELSE IF resp.status = 429 THEN Raised(HakunaRateLimitError)
    ELSE IF resp.status = 404 THEN Returned(None)
    ELSE IF resp.status >= 400 THEN Raised(HakunaApiError)
    ELSE IF resp.status = 204 THEN Returned(None)
    ELSE Returned(resp.body)

\* get_timer with line 108 testing the date for truth instead of for None
get_timer_date_set(resp) ==
    LET r == Request("/timer", resp) IN
    IF r.err # "none" THEN r
    ELSE IF TruthyDict(r.value) /\ ~IsNone(Get(r.value[1], "date")) THEN Returned(None)
    ELSE r

\* HakunaApiClient.get_timer
get_timer(resp) ==
    LET r == Request("/timer", resp) IN
    IF r.err # "none" THEN r
    ELSE IF TruthyDict(r.value) /\ IsNone(Get(r.value[1], "date")) THEN Returned(None)
    ELSE r

\* HakunaApiClient.start_timer, lines 119-127: the JSON body of the request,
\* None when no argument was given
StartTimerJson(task_id, project_id, note) ==
    LET args == [task_id |-> task_id, project_id |-> project_id, note |-> note]
        body == [k \in {a \in DOMAIN args : ~IsNone(args[a])} |-> args[k]]
    IN IF DOMAIN body # {} THEN Some(body) ELSE None

\* HakunaApiClient.start_timer / stop_timer / cancel_timer
start_timer(resp) == Request("/timer", resp)
stop_timer(resp) == Request("/timer", resp)
cancel_timer(resp) == Request("/timer", resp)

\* HakunaApiClient.get_overview
get_overview(resp) == Request("/overview", resp)

\* a list operation that returns the result of _request as it is
ListResultRaw(endpoint, resp) == Request(endpoint, resp)

\* `result if result else []` of the list operations; the value is the list,
\* wrapped so that it cannot be taken for None
ListResult(endpoint, resp) ==
    LET r == Request(endpoint, resp) IN
    IF r.err # "none" THEN r
    ELSE IF TruthyList(r.value) THEN r
    ELSE Returned(Some(<<>>))

\* HakunaApiClient.get_presence / get_users / get_tasks
get_presence(resp) == ListResult("/presence", resp)
get_users(resp) == ListResult("/users", resp)
get_tasks(resp) == ListResult("/tasks", resp)

\* a date argument: a datetime.date, or a string taken as it is
DateObj(y, m, d) == [kind |-> "date", ymd |-> <<y, m, d>>, text |-> ""]
DateStr(t) == [kind |-> "str", ymd |-> <<>>, text |-> t]

Pad2(n) == IF n < 10 THEN "0" \o ToString(n) ELSE ToString(n)

\* date.isoformat(): YYYY-MM-DD (years of four digits)
IsoFormat(ymd) == ToString(ymd[1]) \o "-" \o Pad2(ymd[2]) \o "-" \o Pad2(ymd[3])

\* lines 166-167, 170-171: a date becomes its ISO string, a string stays
AsIso(arg) == IF arg.kind = "date" THEN DateStr(IsoFormat(arg.ymd)) ELSE arg

\* get_time_entries defaulting the end date before the start date is converted
TimeEntriesParamsEarly(start_date, end_date, user_id) ==
    [start_date |-> AsIso(start_date),
     end_date |-> IF IsNone(end_date) THEN start_date ELSE AsIso(end_date[1]),
     user_id |-> user_id]

\* HakunaApiClient.get_time_entries, lines 166-178: the query parameters
TimeEntriesParams(start_date, end_date, user_id) ==
    [start_date |-> AsIso(start_date),
     end_date |-> IF IsNone(end_date) THEN AsIso(start_date) ELSE AsIso(end_date[1]),
     user_id |-> user_id]

\* HakunaApiClient.get_time_entries, lines 180-181
get_time_entries(resp) == ListResult("/time_entries", resp)

-----------------------------------------------------------------------------
(* The service *)

\* answers to GET /timer: the running timer while one runs, otherwise one of
\* the "no timer" answers; failures at any time
TimerResponses(active) ==
    IF active
    THEN Responses({TimerRunningBody}) \ {Http(204, None), Http(404, None)}
    ELSE Responses(TimerBodies \ {TimerRunningBody})

\* a 2xx answer to POST /timer, PUT /timer or DELETE /timer means it was done
Done(resp) == resp.exc = "none" /\ resp.status \in {200, 204}

-----------------------------------------------------------------------------
(* Refresh Aggregator: coordinator.py *)

Fetches == {"timer", "overview", "presence", "users", "tasks"}

NoFetch == [f \in Fetches |-> "pending"]

\* what is remembered of one Gateway call of the cycle: that the service
\* answered 404, else the error raised, else "ok"
Outcome(resp, r) ==
    IF resp.exc = "none" /\ resp.status = 404 THEN "404"
    ELSE IF r.err # "none" THEN r.err
    ELSE "ok"

Min(S) == CHOOSE i \in S : \A j \in S : i <= j

\* the derivation with a fallback that takes the first task, archived or not
DefaultTaskIdFirstTask(tasks) ==
    LET defaults == { i \in 1..Len(tasks) :
                        TruthyBool(Get(tasks[i], "default"))
                            /\ ~TruthyBool(Get(tasks[i], "archived")) }
        first == IF defaults # {} THEN Get(tasks[Min(defaults)], "id") ELSE None
    IN  IF IsNone(first) /\ Len(tasks) > 0 THEN Get(tasks[1], "id") ELSE first

\* the derivation with a first loop that does not look at `archived`
DefaultTaskIdArchived(tasks) ==
    LET defaults == { i \in 1..Len(tasks) : TruthyBool(Get(tasks[i], "default")) }
        open == { i \in 1..Len(tasks) : ~TruthyBool(Get(tasks[i], "archived")) }
        first == IF defaults # {} THEN Get(tasks[Min(defaults)], "id") ELSE None
    IN  IF IsNone(first) /\ Len(tasks) > 0
        THEN IF open # {} THEN Get(tasks[Min(open)], "id") ELSE None
        ELSE first

\* lines 61-72: the first default, non-archived task, else the first
\* non-archived task
DefaultTaskId(tasks) ==
    LET defaults == { i \in 1..Len(tasks) :
                        TruthyBool(Get(tasks[i], "default"))
                            /\ ~TruthyBool(Get(tasks[i], "archived")) }
        open == { i \in 1..Len(tasks) : ~TruthyBool(Get(tasks[i], "archived")) }
        first == IF defaults # {} THEN Get(tasks[Min(defaults)], "id") ELSE None
    IN  IF IsNone(first) /\ Len(tasks) > 0
        THEN IF open # {} THEN Get(tasks[Min(open)], "id") ELSE None
        ELSE first

\* the returned dict with timer_running taken from the truth of the timer
SnapshotTruthy(t, o, p, u, tasks) ==
    [timer |-> t, overview |-> o, presence |-> p, users |-> u, tasks |-> tasks,
     default_task_id |-> DefaultTaskId(tasks),
     timer_running |-> TruthyDict(t)]

\* lines 74-82: the returned dict
Snapshot(t, o, p, u, tasks) ==
    [timer |-> t, overview |-> o, presence |-> p, users |-> u, tasks |-> tasks,
     default_task_id |-> DefaultTaskId(tasks),
     timer_running |-> ~IsNone(t)]

\* a best-effort fetch that keeps the list of the published snapshot when
\* the call raised
DegradedKeep(field) == IF IsNone(data) THEN <<>> ELSE data[1][field]

\* lines 46-47, 52-53, 58-59: what a best-effort fetch leaves in its local
\* when the call raised
Degraded(field) == <<>>

\* the two except clauses in the other order: the base class catches first
FailureBaseFirst(err) ==
    IF IsHakunaApiError(err) THEN "UpdateFailed: Error fetching data"
    ELSE IF err = HakunaAuthError THEN "UpdateFailed: Authentication failed"
    ELSE err

\* lines 84-87, and an exception that is no HakunaApiError leaving the method
Failure(err) ==
    IF err = HakunaAuthError THEN "UpdateFailed: Authentication failed"
    ELSE IF IsHakunaApiError(err) THEN "UpdateFailed: Error fetching data"
    ELSE err

\* a press suspended in async_request_refresh resumes when the cycle is over
Resumed(p) == IF p.stage = "refreshing" THEN [p EXCEPT !.stage = "done"] ELSE p

\* the cycle is over: back to idle, locals gone
EndCycle(result) ==
    /\ pc' = "idle"
    /\ updateResult' = result
    /\ timer' = None /\ overview' = None /\ presence' = <<>> /\ users' = <<>>
    /\ press' = Resumed(press)
    /\ cycleAfterStart' = FALSE

\* _async_update_data entered: suspended in the first request
BeginCycle(afterStart) ==
    /\ pc' = "get_timer"
    /\ updateResult' = "running"
    /\ got' = NoFetch
    /\ cycleAfterStart' = afterStart
    /\ UNCHANGED <<timer, overview, presence, users>>

\* the update interval elapsed
Tick ==
    /\ pc = "idle"
    /\ BeginCycle(startedOk)
    /\ UNCHANGED <<data, remoteTimer, press, startedOk, pubAfterStart, lastCall>>

\* a timer fetch that is tried again when it raised
FetchTimerRetry ==
    /\ pc = "get_timer"
    /\ \E resp \in TimerResponses(remoteTimer) :
        LET r == get_timer(resp) IN
        /\ got' = [got EXCEPT !["timer"] = Outcome(resp, r)]
        /\ IF r.err = "none"
           THEN /\ timer' = r.value
                /\ pc' = "get_overview"
           ELSE UNCHANGED <<timer, pc>>
        /\ UNCHANGED <<updateResult, overview, presence, users, press, cycleAfterStart>>
    /\ UNCHANGED <<data, remoteTimer, startedOk, pubAfterStart, lastCall>>

\* line 38
FetchTimer ==
    /\ pc = "get_timer"
    /\ \E resp \in TimerResponses(remoteTimer) :
        LET r == get_timer(resp) IN
        /\ got' = [got EXCEPT !["timer"] = Outcome(resp, r)]
        /\ IF r.err = "none"
           THEN /\ timer' = r.value
                /\ pc' = "get_overview"
                /\ UNCHANGED <<updateResult, overview, presence, users, press,
                               cycleAfterStart>>
           ELSE EndCycle(Failure(r.err))
    /\ UNCHANGED <<data, remoteTimer, startedOk, pubAfterStart, lastCall>>

\* the overview fetch wrapped like the best-effort ones: a Gateway error
\* leaves None and the cycle goes on
FetchOverviewBestEffort ==
    /\ pc = "get_overview"
    /\ \E resp \in Responses({OverviewBody}) :
        LET r == get_overview(resp) IN
        /\ got' = [got EXCEPT !["overview"] = Outcome(resp, r)]
        /\ IF r.err = "none" \/ IsHakunaApiError(r.err)
           THEN /\ overview' = r.value
                /\ pc' = "get_presence"
                /\ UNCHANGED <<updateResult, timer, presence, users, press,
                               cycleAfterStart>>
           ELSE EndCycle(Failure(r.err))
    /\ UNCHANGED <<data, remoteTimer, startedOk, pubAfterStart, lastCall>>

\* line 41
FetchOverview ==
    /\ pc = "get_overview"
    /\ \E resp \in Responses({OverviewBody}) :
        LET r == get_overview(resp) IN
        /\ got' = [got EXCEPT !["overview"] = Outcome(resp, r)]
        /\ IF r.err = "none"
           THEN /\ overview' = r.value
                /\ pc' = "get_presence"
                /\ UNCHANGED <<updateResult, timer, presence, users, press,
                               cycleAfterStart>>
           ELSE EndCycle(Failure(r.err))
    /\ UNCHANGED <<data, remoteTimer, startedOk, pubAfterStart, lastCall>>

\* lines 44-47
FetchPresence(bodies) ==
    /\ pc = "get_presence"
    /\ \E resp \in Responses(bodies) :
        LET r == get_presence(resp) IN
        /\ got' = [got EXCEPT !["presence"] = Outcome(resp, r)]
        /\ IF r.err = "none" \/ IsHakunaApiError(r.err)
           THEN /\ presence' = (IF r.err = "none" THEN r.value[1] ELSE Degraded("presence"))
                /\ pc' = "get_users"
                /\ UNCHANGED <<updateResult, timer, overview, users, press,
                               cycleAfterStart>>
           ELSE EndCycle(Failure(r.err))
    /\ UNCHANGED <<data, remoteTimer, startedOk, pubAfterStart, lastCall>>

\* lines 50-53
FetchUsers(bodies) ==
    /\ pc = "get_users"
    /\ \E resp \in Responses(bodies) :
        LET r == get_users(resp) IN
        /\ got' = [got EXCEPT !["users"] = Outcome(resp, r)]
        /\ IF r.err = "none" \/ IsHakunaApiError(r.err)
           THEN /\ users' = (IF r.err = "none" THEN r.value[1] ELSE Degraded("users"))
                /\ pc' = "get_tasks"
                /\ UNCHANGED <<updateResult, timer, overview, presence, press,
                               cycleAfterStart>>
           ELSE EndCycle(Failure(r.err))
    /\ UNCHANGED <<data, remoteTimer, startedOk, pubAfterStart, lastCall>>

\* lines 56-82: the last fetch, the derivation, and the returned dict
\* becoming coordinator.data
FetchTasks(bodies) ==
    /\ pc = "get_tasks"
    /\ \E resp \in Responses(bodies) :
        LET r == get_tasks(resp) IN
        /\ got' = [got EXCEPT !["tasks"] = Outcome(resp, r)]
        /\ IF r.err = "none" \/ IsHakunaApiError(r.err)
           THEN LET tasks == IF r.err = "none" THEN r.value[1] ELSE Degraded("tasks") IN
                /\ data' = Some(Snapshot(timer, overview, presence, users, tasks))
                /\ pubAfterStart' = cycleAfterStart
                /\ EndCycle("success")
           ELSE /\ EndCycle(Failure(r.err))
                /\ UNCHANGED <<data, pubAfterStart>>
    /\ UNCHANGED <<remoteTimer, startedOk, lastCall>>

-----------------------------------------------------------------------------
(* Buttons: button.py *)

TimerKeys == {"start_timer", "stop_timer", "cancel_timer"}

\* truthiness of coordinator.data (None and an empty dict are falsy)
DataTruthy == ~IsNone(data) /\ DOMAIN data[1] # {}

\* available with the stop/cancel test naming only the stop key, so that
\* cancel falls through to `return True`
availableStopOnly(key) ==
    IF ~DataTruthy THEN FALSE
    ELSE IF key = "start_timer" THEN ~data[1].timer_running
    ELSE IF key = "stop_timer" THEN data[1].timer_running
    ELSE TRUE

\* HakunaButton.available, lines 87-104
available(key) ==
    IF ~DataTruthy THEN FALSE
    ELSE IF key = "start_timer" THEN ~data[1].timer_running
    ELSE IF key \in {"stop_timer", "cancel_timer"} THEN data[1].timer_running
    ELSE TRUE

NoPress == [key |-> "none", stage |-> "done", task_id |-> None, json |-> None,
            gw |-> "none", logged |-> "none", raised |-> "none", refresh |-> FALSE]

\* a start button that looks the task id up under the key "task_id"
PressTaskIdOtherKey(key) ==
    IF key = "start_timer" /\ ~IsNone(data) THEN Get(data[1], "task_id") ELSE None

\* lines 113-115: the task id handed to start_timer
PressTaskId(key) ==
    IF key = "start_timer" /\ ~IsNone(data) THEN data[1].default_task_id ELSE None

\* the Gateway operation behind a key
TimerCall(key, resp) ==
    IF key = "start_timer" THEN start_timer(resp)
    ELSE IF key = "stop_timer" THEN stop_timer(resp)
    ELSE cancel_timer(resp)

\* line 132: async_request_refresh starts a cycle at once when none is in
\* progress, and otherwise waits for the one in progress
RequestRefresh(afterStart) ==
    IF pc = "idle"
    THEN BeginCycle(afterStart)
    ELSE /\ cycleAfterStart' = (cycleAfterStart /\ afterStart)
         /\ UNCHANGED <<pc, updateResult, got, timer, overview, presence, users>>

\* lines 108-120, 123, 128: the button of a timer action is pressed and the
\* Gateway request goes out.  The buttons exist once the first refresh of
\* async_setup_entry has succeeded.
PressCall(key) ==
    /\ key \in TimerKeys
    /\ ~IsNone(data)
    /\ press.stage = "done"
    /\ press' = [NoPress EXCEPT !.key = key, !.stage = "calling",
                                !.task_id = PressTaskId(key),
                                !.json = IF key = "start_timer"
                                         THEN StartTimerJson(PressTaskId(key), None, None)
                                         ELSE None]
    /\ UNCHANGED <<data, updateResult, pc, timer, overview, presence, users, got,
                   remoteTimer, startedOk, cycleAfterStart, pubAfterStart, lastCall>>

\* a handler that logs the error and returns
PressFailedSwallow(p, err) ==
    [p EXCEPT !.stage = "done", !.gw = err, !.logged = "error"]

\* lines 134-136: the error is logged and raised again
PressFailed(p, err) ==
    [p EXCEPT !.stage = "done", !.gw = err, !.logged = "error", !.raised = err]

\* async_press with the refresh request in a `finally`: it is made after a
\* failed Gateway call too
PressReturnFinally ==
    /\ press.stage = "calling"
    /\ \E resp \in Responses({TimerRunningBody}) :
        LET r == TimerCall(press.key, resp)
            running == IF Done(resp) THEN press.key = "start_timer" ELSE remoteTimer
            started == running /\ (startedOk \/ (press.key = "start_timer" /\ r.err = "none"))
        IN
        /\ remoteTimer' = running
        /\ startedOk' = started
        /\ press' = IF r.err = "none"
                    THEN [press EXCEPT !.stage = "refreshing", !.gw = "ok",
                                       !.logged = "info", !.refresh = TRUE]
                    ELSE [PressFailed(press, r.err) EXCEPT !.refresh = TRUE]
        /\ RequestRefresh(started)
    /\ UNCHANGED <<data, pubAfterStart, lastCall>>

\* lines 120-136: the Gateway call of the pressed button returns or raises
PressReturn ==
    /\ press.stage = "calling"
    /\ \E resp \in Responses({TimerRunningBody}) :
        LET r == TimerCall(press.key, resp)
            running == IF Done(resp) THEN press.key = "start_timer" ELSE remoteTimer
            started == running /\ (startedOk \/ (press.key = "start_timer" /\ r.err = "none"))
        IN
        /\ remoteTimer' = running
        /\ startedOk' = started
        /\ IF r.err = "none"
           THEN /\ press' = [press EXCEPT !.stage = "refreshing", !.gw = "ok",
                                          !.logged = "info", !.refresh = TRUE]
                /\ RequestRefresh(started)
           ELSE /\ press' = PressFailed(press, r.err)
                /\ cycleAfterStart' = (cycleAfterStart /\ running)
                /\ UNCHANGED <<pc, updateResult, got, timer, overview, presence, users>>
    /\ UNCHANGED <<data, pubAfterStart, lastCall>>

\* lines 125-132: the refresh button
PressRefresh ==
    /\ ~IsNone(data)
    /\ press.stage = "done"
    /\ press' = [NoPress EXCEPT !.key = "refresh", !.stage = "refreshing",
                                !.logged = "info", !.refresh = TRUE]
    /\ RequestRefresh(startedOk)
    /\ UNCHANGED <<data, remoteTimer, startedOk, pubAfterStart, lastCall>>

-----------------------------------------------------------------------------
(* Specifications *)

\* the Gateway operations and their endpoints
Endpoint(op) ==
    CASE op \in {"get_timer", "start_timer", "stop_timer", "cancel_timer"} -> "/timer"
      [] op = "get_overview" -> "/overview"
      [] op = "get_time_entries" -> "/time_entries"
      [] op = "get_time_entry" -> "/time_entries/1"
      [] op = "get_absences" -> "/absences"
      [] op = "get_users" -> "/users"
      [] op = "get_presence" -> "/presence"
      [] op = "get_projects" -> "/projects"
      [] op = "get_tasks" -> "/tasks"
      [] op = "get_company" -> "/company"
      [] op = "get_absence_types" -> "/absence_types"
      [] op = "ping" -> "/ping"

ListOperations == {"get_time_entries", "get_absences", "get_users", "get_presence",
                   "get_projects", "get_tasks", "get_absence_types"}

Operations == {"get_timer", "start_timer", "stop_timer", "cancel_timer",
               "get_overview", "get_time_entry", "get_company", "ping"}
                  \cup ListOperations

\* the 200 bodies of an operation
OpBodies(op) ==
    IF op \in ListOperations THEN {<<>>, <<UserEntry>>}
    ELSE IF Endpoint(op) = "/timer" THEN TimerBodies
    ELSE {OverviewBody}

\* one operation of the client on one answer of the service
Call(op, resp) ==
    IF op = "get_timer" THEN get_timer(resp)
    ELSE IF op \in ListOperations THEN ListResult(Endpoint(op), resp)
    ELSE Request(Endpoint(op), resp)

NoCall == [op |-> "none", resp |-> Http(200, None), result |-> Returned(None)]

Init ==
    /\ data = None
    /\ updateResult = "none"
    /\ pc = "idle"
    /\ timer = None /\ overview = None /\ presence = <<>> /\ users = <<>>
    /\ got = NoFetch
    /\ remoteTimer \in BOOLEAN
    /\ press = NoPress
    /\ startedOk = FALSE /\ cycleAfterStart = FALSE /\ pubAfterStart = FALSE
    /\ lastCall = NoCall

\* the timer is started or ended elsewhere (another client of the service)
RemoteChange ==
    /\ remoteTimer' = ~remoteTimer
    /\ startedOk' = FALSE
    /\ cycleAfterStart' = FALSE
    /\ UNCHANGED <<data, updateResult, pc, timer, overview, presence, users, got,
                   press, pubAfterStart, lastCall>>

\* the task lists of the service while cycles repeat: none, a default
\* task, an archived task, an archived task before an open one
CycleTaskBodies ==
    { <<>>, <<Task(1, TRUE, FALSE)>>, <<Task(1, FALSE, TRUE)>>,
      <<Task(1, FALSE, TRUE), Task(2, FALSE, FALSE)>> }

\* the refresh cycles alone, with every answer of the service
Next ==
    \/ Tick
    \/ FetchTimer
    \/ FetchOverview
    \/ FetchPresence(PresenceBodies)
    \/ FetchUsers(UsersBodies)
    \/ FetchTasks(CycleTaskBodies)
    \/ RemoteChange

Spec == Init /\ [][Next]_vars

\* the buttons and the cycles; the team lists stay empty and there is at
\* most one task
ButtonTaskBodies == {<<>>, <<Task(1, TRUE, FALSE)>>}

NextActions ==
    \/ Tick
    \/ FetchTimer
    \/ FetchOverview
    \/ FetchPresence({<<>>})
    \/ FetchUsers({<<>>})
    \/ FetchTasks(ButtonTaskBodies)
    \/ \E key \in TimerKeys : PressCall(key)
    \/ PressReturn
    \/ PressRefresh

SpecActions == Init /\ [][NextActions]_vars

\* every Gateway call that is awaited returns or raises in the end
CallsReturn ==
    /\ WF_vars(FetchTimer)
    /\ WF_vars(FetchOverview)
    /\ WF_vars(FetchPresence({<<>>}))
    /\ WF_vars(FetchUsers({<<>>}))
    /\ WF_vars(FetchTasks(ButtonTaskBodies))
    /\ WF_vars(PressReturn)

SpecLive == Init /\ [][NextActions]_vars /\ CallsReturn

\* the first cycle has reached its last fetch, the task list
InitDerive ==
    /\ data = None
    /\ updateResult = "running"
    /\ pc = "get_tasks"
    /\ timer \in {None, Some(TimerRunningBody)}
    /\ remoteTimer = ~IsNone(timer)
    /\ overview = Some(OverviewBody)
    /\ presence \in PresenceBodies
    /\ users \in UsersBodies
    /\ got = [NoFetch EXCEPT !["timer"] = "ok", !["overview"] = "ok",
                             !["presence"] = "ok", !["users"] = "ok"]
    /\ press = NoPress
    /\ startedOk = FALSE /\ cycleAfterStart = FALSE /\ pubAfterStart = FALSE
    /\ lastCall = NoCall

NextDerive == FetchTasks(TaskLists(MaxTasks))

SpecDerive == InitDerive /\ [][NextDerive]_vars

\* one Gateway operation, every answer of the service
GatewayCall ==
    /\ \E op \in Operations : \E resp \in Responses(OpBodies(op)) :
        lastCall' = [op |-> op, resp |-> resp, result |-> Call(op, resp)]
    /\ UNCHANGED <<data, updateResult, pc, timer, overview, presence, users, got,
                   remoteTimer, press, startedOk, cycleAfterStart, pubAfterStart>>

NextGateway == GatewayCall

SpecGateway == Init /\ [][NextGateway]_vars

\* the arguments get_time_entries is called with
StartDates == {DateObj(2024, 1, 5), DateObj(2024, 11, 23), DateStr("2024-01-05")}
EndDates == {None} \cup {Some(d) : d \in StartDates}
UserIds == {None, Some(7)}
EntryBodies == {<<>>, <<UserEntry>>}

\* one call of get_time_entries; the call before it is kept for comparison
TimeEntriesCall ==
    /\ \E start_date \in StartDates : \E end_date \in EndDates : \E user_id \in UserIds :
       \E resp \in {Http(200, Some(b)) : b \in EntryBodies} \cup {Http(204, None), Http(500, None)} :
        lastCall' = [op |-> "get_time_entries", resp |-> resp,
                     result |-> get_time_entries(resp),
                     start_date |-> start_date, end_date |-> end_date, user_id |-> user_id,
                     params |-> TimeEntriesParams(start_date, end_date, user_id),
                     before |-> IF lastCall.op = "none" THEN NoCall
                                ELSE [lastCall EXCEPT !.before = NoCall]]
    /\ UNCHANGED <<data, updateResult, pc, timer, overview, presence, users, got,
                   remoteTimer, press, startedOk, cycleAfterStart, pubAfterStart>>

NextEntries == TimeEntriesCall

SpecEntries == Init /\ [][NextEntries]_vars

PcValues == {"idle", "get_timer", "get_overview", "get_presence", "get_users", "get_tasks"}

TypeOK ==
    /\ pc \in PcValues
    /\ remoteTimer \in BOOLEAN
    /\ (pc = "idle") = (updateResult # "running")
    /\ startedOk => remoteTimer
    /\ cycleAfterStart => startedOk /\ pc # "idle"

-----------------------------------------------------------------------------
(* Properties *)

Published == ~IsNone(data)
Snap == data[1]

BestEffort == {"presence", "users", "tasks"}
RefreshFailures == {"UpdateFailed: Authentication failed", "UpdateFailed: Error fetching data"}

\* C1: in every published snapshot timer_running is true exactly when the
\* timer is not None
C1_TimerRunningIffTimer ==
    Published => (Snap.timer_running <=> ~IsNone(Snap.timer))

\* a snapshot whose timer is the empty object, which is not None
C1_Witness ==
    /\ Published /\ updateResult = "success"
    /\ Snap.timer = Some(EmptyDict) /\ Snap.timer_running

\* the selection policy as a relation between a task list and an optional id
IsDefaultOpen(t) == t["default"] = Some(TRUE) /\ t["archived"] = Some(FALSE)
IsOpen(t) == t["archived"] = Some(FALSE)

Selected(tasks, id) ==
    \/ \E i \in 1..Len(tasks) :
        /\ IsDefaultOpen(tasks[i])
        /\ \A j \in 1..(i - 1) : ~IsDefaultOpen(tasks[j])
        /\ id = tasks[i]["id"]
    \/ /\ \A i \in 1..Len(tasks) : ~IsDefaultOpen(tasks[i])
       /\ \E i \in 1..Len(tasks) :
            /\ IsOpen(tasks[i])
            /\ \A j \in 1..(i - 1) : ~IsOpen(tasks[j])
            /\ id = tasks[i]["id"]
    \/ /\ \A i \in 1..Len(tasks) : ~IsOpen(tasks[i])
       /\ id = None

\* C2: the published default_task_id is the id of the first default,
\* non-archived task of the fetched list, else of the first non-archived
\* task, else absent
C2_DefaultTaskSelection ==
    Published => Selected(Snap.tasks, Snap.default_task_id)

\* the fallback decides, and the first task is not the one it takes
C2_Witness ==
    /\ Published
    /\ Len(Snap.tasks) = 3
    /\ \A i \in 1..3 : ~IsDefaultOpen(Snap.tasks[i])
    /\ ~IsOpen(Snap.tasks[1])
    /\ Snap.default_task_id = Some(2)

ExampleTasks == << Task(1, FALSE, FALSE), Task(2, TRUE, TRUE), Task(3, FALSE, FALSE) >>

\* C3 as stated: for the list task 1 (plain), task 2 (default, archived),
\* task 3 (plain) the published default_task_id is 3
C3_ExampleYieldsThree ==
    (Published /\ Snap.tasks = ExampleTasks) => Snap.default_task_id = Some(3)

\* C3 amended: for that list the published default_task_id is 1, the id of
\* the first non-archived task
C3_ExampleYieldsOne ==
    (Published /\ Snap.tasks = ExampleTasks) => Snap.default_task_id = Some(1)

C3_Witness ==
    Published /\ Snap.tasks = ExampleTasks /\ updateResult = "success"

\* C4: a Gateway error on the timer or overview fetch ends the cycle with a
\* refresh failure, and no step of a cycle that does not end in success
\* changes the published snapshot
CriticalFailed ==
    IsHakunaApiError(got["timer"]) \/ IsHakunaApiError(got["overview"])

C4_CriticalErrorAborts ==
    [][ /\ (pc # "idle" /\ updateResult' # "success") => data' = data
        /\ (pc # "idle" /\ CriticalFailed') =>
              (pc' = "idle" /\ updateResult' \in RefreshFailures /\ data' = data)
      ]_vars

\* a 401 on overview after a snapshot was published: the snapshot is still there
C4_Witness ==
    /\ Published /\ pc = "idle"
    /\ got["overview"] = HakunaAuthError
    /\ updateResult = "UpdateFailed: Authentication failed"
    /\ Snap.presence # <<>>

\* C5: a Gateway error on presence, users or tasks leaves the empty list in
\* that field and the cycle goes on; the snapshot it publishes carries the
\* timer, overview and lists of this cycle
C5_BestEffortErrorSwallowed ==
    [][ /\ (pc = "get_presence" /\ IsHakunaApiError(got'["presence"])) =>
              (pc' = "get_users" /\ presence' = <<>> /\ updateResult' = "running")
        /\ (pc = "get_users" /\ IsHakunaApiError(got'["users"])) =>
              (pc' = "get_tasks" /\ users' = <<>> /\ updateResult' = "running")
        /\ (pc = "get_tasks" /\ IsHakunaApiError(got'["tasks"])) =>
              (updateResult' = "success" /\ data'[1].tasks = <<>>)
        /\ (pc = "get_tasks" /\ updateResult' = "success") =>
              /\ data'[1].timer = timer /\ data'[1].overview = overview
              /\ data'[1].presence = presence /\ data'[1].users = users
              /\ \A f \in BestEffort : IsHakunaApiError(got'[f]) => data'[1][f] = <<>>
      ]_vars

\* presence failed with an auth error, users with a rate limit, the snapshot
\* has a running timer and both lists empty
C5_Witness ==
    /\ Published /\ updateResult = "success"
    /\ got["presence"] = HakunaAuthError /\ got["users"] = HakunaRateLimitError
    /\ Snap.presence = <<>> /\ Snap.users = <<>>
    /\ Snap.timer = Some(TimerRunningBody) /\ Snap.overview = Some(OverviewBody)

\* C6: a 404 to GET /timer raises nothing and gives timer None: the cycle goes
\* on to the overview, and the snapshot it publishes has timer None
C6_Timer404IsNoTimer ==
    got["timer"] = "404" =>
        /\ pc # "idle" => IsNone(timer)
        /\ pc = "idle" => got["overview"] # "pending"
        /\ updateResult = "success" => (IsNone(Snap.timer) /\ ~Snap.timer_running)

C6_Witness ==
    /\ updateResult = "success" /\ Published
    /\ got["timer"] = "404" /\ got["overview"] = "ok"
    /\ IsNone(Snap.timer)

\* C7: 401 raises AuthError, 429 RateLimitError, every other status >= 400
\* the generic ApiError, except 404 on the timer-status operation alone
C7_StatusClassification ==
    (lastCall.op # "none" /\ lastCall.resp.exc = "none") =>
        LET status == lastCall.resp.status
            err == lastCall.result.err
        IN  /\ status = 401 => err = HakunaAuthError
            /\ status = 429 => err = HakunaRateLimitError
            /\ (status >= 400 /\ status \notin {401, 429}
                    /\ ~(status = 404 /\ lastCall.op = "get_timer"))
                  => err = HakunaApiError
            /\ (status = 404 /\ lastCall.op = "get_timer") => err = "none"

\* C9: the snapshot published by a cycle that began after a successful
\* start_timer call, the remote timer running ever since, has timer_running
C9_StartThenRefreshRunning ==
    pubAfterStart => (Published /\ Snap.timer_running)

C9_Witness ==
    /\ pubAfterStart /\ press.key = "start_timer" /\ press.gw = "ok"
    /\ press.stage = "done" /\ Snap.timer_running

\* C10: when the Gateway call of start, stop or cancel raises a Gateway
\* error, the press logs it, raises the same error and is over
C10_ActionErrorReraised ==
    (press.key \in TimerKeys /\ IsHakunaApiError(press.gw)) =>
        /\ press.logged = "error"
        /\ press.raised = press.gw
        /\ press.stage = "done"

C10_Witness ==
    /\ press.key = "stop_timer" /\ press.gw = HakunaRateLimitError
    /\ press.raised = HakunaRateLimitError /\ press.logged = "error"

\* the last two calls of get_time_entries are for the same start date and
\* user, the earlier with the end date equal to the start date, the later
\* without an end date
SameDayPair ==
    /\ lastCall.op = "get_time_entries"
    /\ lastCall.before.op = "get_time_entries"
    /\ lastCall.start_date = lastCall.before.start_date
    /\ lastCall.user_id = lastCall.before.user_id
    /\ IsNone(lastCall.end_date)
    /\ lastCall.before.end_date = Some(lastCall.start_date)

\* C11: get_time_entries(start_date=D) sends the same start_date and end_date
\* parameters as get_time_entries(start_date=D, end_date=D) and, on the same
\* answer of the service, returns the same result
C11_NoEndDateIsSameDay ==
    SameDayPair =>
        /\ lastCall.params = lastCall.before.params
        /\ lastCall.resp = lastCall.before.resp
              => lastCall.result = lastCall.before.result

\* both calls made with a date object, answered alike with a list of entries
C11_Witness ==
    /\ SameDayPair
    /\ lastCall.start_date = DateObj(2024, 11, 23)
    /\ lastCall.params.end_date = DateStr("2024-11-23")
    /\ lastCall.resp = lastCall.before.resp
    /\ lastCall.result = Returned(Some(<<UserEntry>>))

\* the service reports no content: 204, a 200 with an empty list, or (see
\* _request) a 404
NoContent(resp) ==
    /\ resp.exc = "none"
    /\ \/ resp.status \in {204, 404}
       \/ resp.status = 200 /\ resp.body = Some(<<>>)

\* C12: a list operation that returns at all returns a list, never None, and
\* the empty list when the service reported no content
C12_ListNeverNone ==
    (lastCall.op \in ListOperations /\ lastCall.result.err = "none") =>
        /\ ~IsNone(lastCall.result.value)
        /\ NoContent(lastCall.resp) => lastCall.result.value = Some(<<>>)

\* get_absences answered with 204
C12_Witness ==
    /\ lastCall.op = "get_absences"
    /\ lastCall.resp = Http(204, None)
    /\ lastCall.result = Returned(Some(<<>>))

\* C13: start is available exactly when a snapshot is published and its
\* timer_running is false, stop and cancel exactly when one is published and
\* its timer_running is true; so start is never available together with
\* stop or cancel, and none of them before the first snapshot
C13_AvailableFollowsTimerRunning ==
    /\ available("start_timer") <=> (Published /\ ~Snap.timer_running)
    /\ available("stop_timer") <=> (Published /\ Snap.timer_running)
    /\ available("cancel_timer") <=> (Published /\ Snap.timer_running)
    /\ ~(available("start_timer") /\ (available("stop_timer") \/ available("cancel_timer")))
    /\ ~Published => \A key \in TimerKeys : ~available(key)

\* a snapshot without a timer, kept while the refresh after it failed: start
\* is available, stop and cancel are not
C13_Witness ==
    /\ Published /\ ~Snap.timer_running
    /\ updateResult \in RefreshFailures
    /\ available("start_timer")
    /\ ~available("stop_timer") /\ ~available("cancel_timer")

\* the Gateway error that a critical fetch of the last cycle raised
CriticalError ==
    IF IsHakunaApiError(got["timer"]) THEN got["timer"] ELSE got["overview"]

\* C14: a cycle that a critical fetch ended with a HakunaAuthError is reported
\* as "Authentication failed", one ended with any other Gateway error
\* (HakunaRateLimitError, HakunaApiError, the latter also wrapping an
\* aiohttp.ClientError) as "Error fetching data", and neither report is made
\* for the other cause
C14_AuthFailureDistinct ==
    pc = "idle" =>
        /\ CriticalFailed =>
              updateResult = (IF CriticalError = HakunaAuthError
                              THEN "UpdateFailed: Authentication failed"
                              ELSE "UpdateFailed: Error fetching data")
        /\ updateResult = "UpdateFailed: Authentication failed" =>
              (CriticalFailed /\ CriticalError = HakunaAuthError)
        /\ updateResult = "UpdateFailed: Error fetching data" =>
              (CriticalFailed /\ CriticalError # HakunaAuthError)

\* the overview fetch was answered 401 after the timer fetch succeeded
C14_Witness ==
    /\ pc = "idle"
    /\ got["timer"] = "ok" /\ got["overview"] = HakunaAuthError
    /\ updateResult = "UpdateFailed: Authentication failed"

\* C15: every transport failure of a request leaves the Gateway as a
\* HakunaApiError, never as another exception
C15_TransportFailureIsApiError ==
    (lastCall.op # "none" /\ lastCall.resp.exc # "none") =>
        lastCall.result.err = HakunaApiError

\* the two states of the Aggregator
Idle == pc = "idle" /\ updateResult # "running"
Refreshing == pc \in PcValues \ {"idle"} /\ updateResult = "running"

\* C16: the Aggregator is always Idle or Refreshing, and every cycle that
\* began comes back to Idle, given that every Gateway call returns or raises
C16_CycleCompletes ==
    /\ [](Idle \/ Refreshing)
    /\ Refreshing ~> Idle

\* a cycle that the overview fetch ended with an error, back in Idle
C16_Witness ==
    /\ Idle
    /\ got["timer"] = "ok" /\ got["overview"] = HakunaRateLimitError
    /\ updateResult = "UpdateFailed: Error fetching data"

\* the start button is pressed in this step
StartPressed ==
    press.stage = "done" /\ press'.stage = "calling" /\ press'.key = "start_timer"

\* C17: the task id handed to start_timer is the default_task_id of the
\* snapshot published when the button is pressed; without a snapshot or
\* without a default task the call is made all the same, with no task id and
\* no request body
C17_StartUsesDefaultTask ==
    /\ [](~Published =>
            /\ PressTaskId("start_timer") = None
            /\ StartTimerJson(PressTaskId("start_timer"), None, None) = None)
    /\ [][ StartPressed =>
            /\ press'.task_id = (IF Published THEN Snap.default_task_id ELSE None)
            /\ press'.json = (IF IsNone(press'.task_id) THEN None
                              ELSE Some("task_id" :> press'.task_id))
        ]_vars

\* start pressed on a snapshot whose default task is task 1: the request is
\* under way with that id in its body
C17_Witness ==
    /\ press.key = "start_timer" /\ press.stage = "calling"
    /\ press.task_id = Some(1)
    /\ press.json = Some("task_id" :> Some(1))
    /\ Published /\ Snap.default_task_id = Some(1)

\* C18: the overview of every published snapshot is a record, not None
C18_OverviewPresent ==
    Published => ~IsNone(Snap.overview)

\* C19: a timer in a published snapshot has a date that is not null
C19_TimerHasDate ==
    (Published /\ ~IsNone(Snap.timer)) => ~IsNone(Get(Snap.timer[1], "date"))

\* the Gateway call of a pressed timer button ends in this step
CallEnded == press.stage = "calling" /\ press'.stage # "calling"

\* C20: a timer button requests a refresh only once its Gateway call has
\* returned; when the call raises, no refresh is requested, no cycle begins
\* and the published snapshot stays as it is
C20_RefreshOnlyAfterSuccess ==
    /\ [](press.key \in TimerKeys /\ press.refresh => press.gw = "ok")
    /\ [][ CallEnded =>
            IF press'.gw = "ok"
            THEN /\ press'.refresh
                 /\ pc = "idle" => pc' = "get_timer"
            ELSE /\ ~press'.refresh
                 /\ press'.raised = press'.gw
                 /\ UNCHANGED <<data, pc, updateResult, got>>
        ]_vars

\* stop was answered 500 while no cycle was in progress: none has begun
C20_Witness ==
    /\ press.key = "stop_timer" /\ press.stage = "done"
    /\ press.gw = HakunaApiError /\ ~press.refresh
    /\ pc = "idle" /\ Published

\* the order of the requests in _async_update_data
FetchOrder == <<"timer", "overview", "presence", "users", "tasks">>

\* the request of the running cycle has been issued and has settled
Settled(f) == got[f] # "pending"

\* the request raised
Failed(f) == got[f] \notin {"pending", "ok", "404"}

\* the await at which the request for f is outstanding
AwaitOf(f) == "get_" \o f

\* C21: the requests of a cycle go out in the order timer, overview,
\* presence, users, tasks, one at a time, each when all before it have
\* settled; after a failed timer or overview fetch none goes out in that cycle
C21_FetchOrder ==
    /\ [](\A i \in 1..Len(FetchOrder) :
            /\ Settled(FetchOrder[i]) => \A j \in 1..(i - 1) : Settled(FetchOrder[j])
            /\ pc = AwaitOf(FetchOrder[i]) =>
                  /\ \A j \in 1..(i - 1) : Settled(FetchOrder[j])
                  /\ \A j \in i..Len(FetchOrder) : ~Settled(FetchOrder[j])
            /\ (i <= 2 /\ Failed(FetchOrder[i])) =>
                  /\ pc = "idle"
                  /\ \A j \in (i + 1)..Len(FetchOrder) : ~Settled(FetchOrder[j]))
    /\ [][ \A f \in Fetches : got'[f] # got[f] =>
              \/ pc = "idle" /\ got' = NoFetch
              \/ /\ pc = AwaitOf(f) /\ ~Settled(f)
                 /\ \A g \in Fetches \ {f} : got'[g] = got[g]
        ]_vars

\* the overview fetch raised after the timer fetch had settled: the cycle is
\* over and the three later requests were never made
C21_Witness ==
    /\ pc = "idle"
    /\ got["timer"] = "ok" /\ got["overview"] = HakunaApiError
    /\ got["presence"] = "pending" /\ got["users"] = "pending" /\ got["tasks"] = "pending"

=============================================================================
